---- MODULE Spec2Model ----
(***************************************************************************)
(* The chat client of devin_app (frontend/app.js): the four module-level   *)
(* variables, the message list of the page, the asynchronous sendMessage   *)
(* activations with their response streams, and the handlers the user can  *)
(* fire between two awaits of an activation.                               *)
(*                                                                         *)
(* Text is a TLA+ string.  The response body is a sequence of units, each  *)
(* an indivisible run of bytes of a 'data: <json>\n\n' line: a network     *)
(* chunk may end between any two units.  Bytes are ASCII, so the           *)
(* TextDecoder of line 138 maps a chunk to the same units.                 *)
(***************************************************************************)
EXTENDS Naturals, Sequences, FiniteSets, TLC

VARIABLES
    currentConversationId,  \* app.js:3
    currentModel,           \* app.js:4
    uploadedFileData,       \* app.js:5, <<>> for null, <<d>> for the object d
    isStreaming,            \* app.js:6
    input,                  \* value of the #message-input textarea
    messages,               \* children of #messages-container, in document order
    welcome,                \* whether the .welcome-message block is in the page
    reducers,               \* the sendMessage activations suspended at an await
    modelsLoad,             \* where loadModels stands: "pending", "done", "failed"
    uploading,              \* handleFileUpload activations awaiting their fetch
    lastRequest,            \* history: <<body>> of the latest POST /chat request, with what was typed and attached
    turnsLeft,              \* how many more messages the user is going to send
    plan,                   \* the envelopes the server has still to write
    uploadsLeft,            \* how many more PDF files the user is going to upload
    conversation,           \* history: what the next request is to continue, see Delivered
    script                  \* the startup script (start.sh): its position, variables and children

pageVars == <<currentConversationId, currentModel, uploadedFileData, isStreaming,
              input, messages, welcome, reducers, modelsLoad, uploading,
              lastRequest, turnsLeft, plan, uploadsLeft, conversation>>

vars == <<pageVars, script>>

----------------------------------------------------------------------------
(* The startup script before its first command.  pc is the command it is  *)
(* about to run; BACKEND_PID and FRONTEND_PID are "" until assigned (15-16);*)
(* backend and frontend are the two server processes: "none" before the    *)
(* launch, "running", "terminating" once sent SIGTERM, "dead"; pending is  *)
(* the trapped signal not yet handled, "" for none; status is the exit     *)
(* status, "" while the script runs; port8000 and port3000 tell whether    *)
(* lsof finds a listener on the port.                                       *)
ScriptStart(busy8000, busy3000) ==
    [pc |-> "checkPorts", BACKEND_PID |-> "", FRONTEND_PID |-> "",
     backend |-> "none", frontend |-> "none", pending |-> "", status |-> "",
     port8000 |-> busy8000, port3000 |-> busy3000]

----------------------------------------------------------------------------
(* Bounds of the model *)

MaxTurns == 2
MaxEnvs == 1
MaxUploads == 1

NULL == "null"

----------------------------------------------------------------------------
(* The universe the environment draws from *)

Contents == {"a", "b"}
Tools == {"x"}
ConversationIds == {"c1"}
Errors == {"boom"}
FetchErrors == {"Failed to fetch"}
Models == {"gpt"}
WebSearchToggle == {FALSE}
Inputs == {"  ", " hi "}
Files == {"report.pdf", "notes.txt"}
(* the page images of an extraction result, each named by its page number *)
Pages(n) == [k \in 1..n |-> k]

UploadResponses ==
    {[filename |-> "report.pdf", text_content |-> "Q3 report", images |-> Pages(7)]}

(* Event envelopes: the JSON objects of the stream, absent members as NULL *)
ContentEnv(c) ==
    [type |-> "content", content |-> c, tool |-> NULL,
     conversation_id |-> NULL, error |-> NULL]
ToolStartEnv(t) ==
    [type |-> "tool_start", content |-> NULL, tool |-> t,
     conversation_id |-> NULL, error |-> NULL]
ToolEndEnv(t) ==
    [type |-> "tool_end", content |-> NULL, tool |-> t,
     conversation_id |-> NULL, error |-> NULL]
DoneEnv(c) ==
    [type |-> "done", content |-> NULL, tool |-> NULL,
     conversation_id |-> c, error |-> NULL]
ErrorEnv(e) ==
    [type |-> "error", content |-> NULL, tool |-> NULL,
     conversation_id |-> NULL, error |-> e]
NoEnv ==
    [type |-> NULL, content |-> NULL, tool |-> NULL,
     conversation_id |-> NULL, error |-> NULL]

(* an object whose type the dispatch of the read loop does not know *)
PingEnv ==
    [type |-> "ping", content |-> NULL, tool |-> NULL,
     conversation_id |-> NULL, error |-> NULL]
(* items of a server's plan that stand for lines that are no envelope: a  *)
(* comment line, and a data line whose JSON text is cut short              *)
CommentLine ==
    [type |-> "#comment", content |-> NULL, tool |-> NULL,
     conversation_id |-> NULL, error |-> NULL]
BrokenLine ==
    [type |-> "#broken", content |-> NULL, tool |-> NULL,
     conversation_id |-> NULL, error |-> NULL]

Envelopes ==
    {ContentEnv(c) : c \in Contents} \cup {ToolStartEnv(t) : t \in Tools}
    \cup {ToolEndEnv(t) : t \in Tools} \cup {DoneEnv(c) : c \in ConversationIds}
    \cup {ErrorEnv(e) : e \in Errors}

----------------------------------------------------------------------------
(* The wire format: 'data: <json>\n\n' *)

Unit(u) == [u |-> u, env |-> NoEnv]
DataPrefix == Unit("data: ")
LF == Unit("\\n")
OpenBrace == Unit("{")
CloseBrace == Unit("}")
Members(e) == [u |-> "members", env |-> e]

(* JSON.stringify of an envelope *)
Stringify(e) == <<OpenBrace, Members(e), CloseBrace>>

(* One line of the response body as the server writes it *)
Encode(e) == <<DataPrefix>> \o Stringify(e) \o <<LF, LF>>

(* What the server writes for item e of its plan *)
Line(e) ==
    CASE e = CommentLine -> <<Unit(": keep-alive"), LF, LF>>
      [] e = BrokenLine -> <<DataPrefix, OpenBrace, LF, LF>>
      [] OTHER -> Encode(e)

(* chunk.split('\n'): the pieces between the line feeds, empty ones kept *)
RECURSIVE SplitFrom(_, _, _)
SplitFrom(chunk, i, cur) ==
    IF i > Len(chunk) THEN <<cur>>
    ELSE IF chunk[i] = LF THEN <<cur>> \o SplitFrom(chunk, i + 1, <<>>)
    ELSE SplitFrom(chunk, i + 1, Append(cur, chunk[i]))

Split(chunk) == SplitFrom(chunk, 1, <<>>)

(* line.startsWith('data: ') *)
StartsWithData(line) == Len(line) >= 1 /\ line[1] = DataPrefix

(* line.slice(6) *)
Slice6(line) == Tail(line)

(* JSON.parse: the text of one complete object decodes, anything else throws *)
ParseOk(text) ==
    /\ Len(text) = 3
    /\ text[1] = OpenBrace
    /\ text[2].u = "members"
    /\ text[3] = CloseBrace

JSONparse(text) == text[2].env

(* a trim that leaves the white space in place *)
TrimNothing(s) == s

(* String.prototype.trim on the strings the textarea may hold *)
Trim(s) ==
    CASE s = "  " -> ""
      [] s = " hi " -> "hi"
      [] OTHER -> s

----------------------------------------------------------------------------
(* The page: message entries and the children of their .message-content *)

LoadingNode == [kind |-> "loading", tool |-> NULL, state |-> NULL, text |-> NULL]
BadgeNode(t, s) == [kind |-> "badge", tool |-> t, state |-> s, text |-> NULL]
HtmlNode(c) == [kind |-> "html", tool |-> NULL, state |-> NULL, text |-> c]

(* renderMarkdown: the empty string renders to nothing, any other text to  *)
(* the markup marked and KaTeX make of it                                   *)
renderMarkdown(content) ==
    IF content = "" THEN <<>> ELSE <<HtmlNode(content)>>

(* document.getElementById: the first element in document order, 0 for null *)
getElementById(msgs, id) ==
    IF \E i \in 1..Len(msgs) : msgs[i].id = id
    THEN CHOOSE i \in 1..Len(msgs) :
            /\ msgs[i].id = id
            /\ \A j \in 1..(i - 1) : msgs[j].id # id
    ELSE 0

(* querySelector over the children of a content div: first match, 0 for null *)
FirstIndex(nodes, P(_)) ==
    IF \E i \in 1..Len(nodes) : P(nodes[i])
    THEN CHOOSE i \in 1..Len(nodes) :
            /\ P(nodes[i])
            /\ \A j \in 1..(i - 1) : ~P(nodes[j])
    ELSE 0

IsLoading(n) == n.kind = "loading"

RemoveAt(s, i) == SubSeq(s, 1, i - 1) \o SubSeq(s, i + 1, Len(s))
InsertBefore(s, i, n) == SubSeq(s, 1, i - 1) \o <<n>> \o SubSeq(s, i, Len(s))

Entry(id, role, content, turn) ==
    [id |-> id, role |-> role, content |-> content, thumbs |-> <<>>, more |-> 0,
     turn |-> turn]

(* addMessage (185-222): the id is 'msg-' + Date.now(), now being the     *)
(* millisecond read; the new entry is appended to the container            *)
addMessage(msgs, role, content, isLoading, now, turn) ==
    Append(msgs,
           Entry(now, role,
                 IF isLoading THEN <<LoadingNode>> ELSE renderMarkdown(content),
                 turn))

(* updateMessageContent (224-240) *)
updateMessageContent(msgs, messageId, content) ==
    LET i == getElementById(msgs, messageId) IN
    IF i = 0 THEN msgs
    ELSE [msgs EXCEPT ![i].content = renderMarkdown(content)]

(* removeLoadingIndicator (242-250) *)
removeLoadingIndicator(msgs, messageId) ==
    LET i == getElementById(msgs, messageId) IN
    IF i = 0 THEN msgs
    ELSE LET l == FirstIndex(msgs[i].content, IsLoading) IN
         IF l = 0 THEN msgs
         ELSE [msgs EXCEPT ![i].content = RemoveAt(msgs[i].content, l)]

(* a showToolIndicator that inserts a badge at every tool_start, without   *)
(* looking for the one already there                                        *)
showToolIndicatorAgain(msgs, messageId, toolName, isActive) ==
    LET i == getElementById(msgs, messageId) IN
    IF i = 0 THEN msgs
    ELSE LET contentDiv == msgs[i].content
             IsTool(n) == n.kind = "badge" /\ n.tool = toolName
             toolIndicator == FirstIndex(contentDiv, IsTool)
             loadingIndicator == FirstIndex(contentDiv, IsLoading)
         IN
         IF isActive
         THEN [msgs EXCEPT ![i].content =
                  InsertBefore(contentDiv,
                               IF loadingIndicator # 0 THEN loadingIndicator ELSE 1,
                               BadgeNode(toolName, "active"))]
         ELSE IF toolIndicator # 0
              THEN [msgs EXCEPT ![i].content[toolIndicator].state = "complete"]
              ELSE msgs

(* a showToolIndicator that puts a new badge in front of everything *)
showToolIndicatorFirst(msgs, messageId, toolName, isActive) ==
    LET i == getElementById(msgs, messageId) IN
    IF i = 0 THEN msgs
    ELSE LET contentDiv == msgs[i].content
             IsTool(n) == n.kind = "badge" /\ n.tool = toolName
             toolIndicator == FirstIndex(contentDiv, IsTool)
         IN
         IF isActive
         THEN IF toolIndicator = 0
              THEN [msgs EXCEPT ![i].content =
                       InsertBefore(contentDiv, 1, BadgeNode(toolName, "active"))]
              ELSE msgs
         ELSE IF toolIndicator # 0
              THEN [msgs EXCEPT ![i].content[toolIndicator].state = "complete"]
              ELSE msgs

(* showToolIndicator (252-281) *)
showToolIndicator(msgs, messageId, toolName, isActive) ==
    LET i == getElementById(msgs, messageId) IN
    IF i = 0 THEN msgs
    ELSE LET contentDiv == msgs[i].content
             IsTool(n) == n.kind = "badge" /\ n.tool = toolName
             toolIndicator == FirstIndex(contentDiv, IsTool)
             loadingIndicator == FirstIndex(contentDiv, IsLoading)
         IN
         IF isActive
         THEN IF toolIndicator = 0
              THEN [msgs EXCEPT ![i].content =
                       InsertBefore(contentDiv,
                                    IF loadingIndicator # 0 THEN loadingIndicator ELSE 1,
                                    BadgeNode(toolName, "active"))]
              ELSE msgs
         ELSE IF toolIndicator # 0
              THEN [msgs EXCEPT ![i].content[toolIndicator].state = "complete"]
              ELSE msgs

(* addPdfImages (304-332): the entry just appended is the last div of the  *)
(* container, hence the one '.message.user:last-of-type' selects           *)
ThumbLimit == 5

(* an addPdfImages that shows every page image and no count *)
addPdfImagesAll(msgs, images) ==
    LET i == Len(msgs) IN
    IF i > 0 /\ msgs[i].role = "user" /\ Len(images) > 0
    THEN [msgs EXCEPT ![i].thumbs = images]
    ELSE msgs

(* thumbs: the pages of the img elements appended, in order; more: the n   *)
(* of the '+n more pages' span, 0 when there is no span                     *)
addPdfImages(msgs, images) ==
    LET i == Len(msgs) IN
    IF i > 0 /\ msgs[i].role = "user" /\ Len(images) > 0
    THEN [msgs EXCEPT
            ![i].thumbs = SubSeq(images, 1,
                                 IF Len(images) < ThumbLimit THEN Len(images)
                                 ELSE ThumbLimit),
            ![i].more = IF Len(images) > ThumbLimit THEN Len(images) - ThumbLimit
                        ELSE 0]
    ELSE msgs

----------------------------------------------------------------------------
(* What the stream has delivered, told from the bytes alone: the lines     *)
(* that are complete in everything read so far, however it was chunked     *)
(* (spec 4.1: buffer partial lines, parse complete lines only).            *)

RECURSIVE EncodeAll(_)
EncodeAll(envs) ==
    IF envs = <<>> THEN <<>> ELSE Line(Head(envs)) \o EncodeAll(Tail(envs))

RECURSIVE DecodeLines(_, _)
DecodeLines(lines, k) ==
    IF k >= Len(lines) THEN <<>>
    ELSE (IF StartsWithData(lines[k]) /\ ParseOk(Slice6(lines[k]))
          THEN <<JSONparse(Slice6(lines[k]))>> ELSE <<>>)
         \o DecodeLines(lines, k + 1)

(* the envelopes of the complete lines of a byte sequence; the piece after *)
(* the last line feed is a line still being received                        *)
Delivered(bytes) == DecodeLines(Split(bytes), 1)

(* the bytes activation r has read once its wire holds rest more units *)
Received(r, rest) ==
    LET all == EncodeAll(r.sent) IN SubSeq(all, 1, Len(all) - rest)

IsDone(e) == e.type = "done"
IsError(e) == e.type = "error"
IsTerminal(e) == IsDone(e) \/ IsError(e)

LastWhere(envs, P(_)) ==
    IF \E k \in 1..Len(envs) : P(envs[k])
    THEN CHOOSE k \in 1..Len(envs) :
            /\ P(envs[k])
            /\ \A j \in (k + 1)..Len(envs) : ~P(envs[j])
    ELSE 0

(* The history variable conversation: "fresh" from the page load or a      *)
(* startNewChat to the next request, "open" from a request until a done    *)
(* envelope of its stream is delivered, then the id that envelope carries. *)
(* Reading n more units of r's wire moves it as follows.                   *)
Continued(conv, r, n) ==
    LET before == Delivered(Received(r, Len(r.wire)))
        after == Delivered(Received(r, Len(r.wire) - n))
        k == LastWhere(after, IsDone)
    IN IF conv # "fresh" /\ k > Len(before) THEN after[k].conversation_id ELSE conv

----------------------------------------------------------------------------
(* The envelope dispatch of the read loop (141-162).  st is the part of    *)
(* the state one chunk's processing reads and writes.                       *)

(* an envelope dispatch in which the error branch, too, assigns            *)
(* data.conversation_id to currentConversationId                            *)
AdoptedOnTerminal(ccid, data) ==
    IF data.type \in {"done", "error"} THEN data.conversation_id ELSE ccid

(* currentConversationId after the dispatch of data: assigned in the done  *)
(* branch only (153-154)                                                    *)
Adopted(ccid, data) ==
    IF data.type = "done" THEN data.conversation_id ELSE ccid

ApplyEnvelope(st, id, data) ==
    LET logged == [st EXCEPT !.applied = Append(@, data),
                             !.ccid = Adopted(@, data)] IN
    CASE data.type = "content" ->
           LET fullContent == st.fullContent \o data.content IN
           [logged EXCEPT !.fullContent = fullContent,
                          !.msgs = updateMessageContent(st.msgs, id, fullContent)]
      [] data.type = "tool_start" ->
           [logged EXCEPT !.msgs = showToolIndicator(st.msgs, id, data.tool, TRUE)]
      [] data.type = "tool_end" ->
           [logged EXCEPT !.msgs = showToolIndicator(st.msgs, id, data.tool, FALSE)]
      [] data.type = "done" -> logged
      [] data.type = "error" ->
           [logged EXCEPT !.msgs =
               updateMessageContent(st.msgs, id, "Error: " \o data.error)]
      [] OTHER -> logged

ProcessLine(st, id, line) ==
    IF StartsWithData(line) /\ ParseOk(Slice6(line))
    THEN ApplyEnvelope(st, id, JSONparse(Slice6(line)))
    ELSE st

RECURSIVE ProcessLines(_, _, _, _)
ProcessLines(st, id, lines, k) ==
    IF k > Len(lines) THEN st
    ELSE ProcessLines(ProcessLine(st, id, lines[k]), id, lines, k + 1)

ProcessChunk(st, id, chunk) == ProcessLines(st, id, Split(chunk), 1)

----------------------------------------------------------------------------
(* Initial state: the page as loaded, loadModels started (496-498) *)

Plans == UNION {[1..n -> Envelopes] : n \in 0..MaxEnvs}

InitPage ==
    /\ script = ScriptStart(FALSE, FALSE)
    /\ currentConversationId = NULL
    /\ currentModel = NULL
    /\ uploadedFileData = <<>>
    /\ isStreaming = FALSE
    /\ input = ""
    /\ messages = <<>>
    /\ welcome = TRUE
    /\ reducers = <<>>
    /\ modelsLoad = "pending"
    /\ uploading = 0
    /\ lastRequest = <<>>
    /\ turnsLeft = MaxTurns
    /\ uploadsLeft = MaxUploads
    /\ conversation = "fresh"

Init == InitPage /\ plan \in Plans

----------------------------------------------------------------------------
(* the number of the turn a sendMessage call that passes the guards starts *)
TurnNumber == MaxTurns - turnsLeft + 1

(* The guards of sendMessage (91-92) *)
NothingToSend(message) == message = "" /\ uploadedFileData = <<>>

(* a sendMessage that forgets the isStreaming guard of line 92 *)
NeverBusy == FALSE

Busy == isStreaming

(* a template that puts the user's text before the document's *)
FullMessageUserFirst(message) ==
    IF uploadedFileData # <<>>
    THEN "User message: " \o message \o "\n\n---\n\n[Uploaded PDF: "
         \o uploadedFileData[1].filename \o "]"
    ELSE message

(* The template of line 98 *)
FullMessage(message) ==
    IF uploadedFileData # <<>>
    THEN "[Uploaded PDF: " \o uploadedFileData[1].filename
         \o "]\n\nText content:\n" \o uploadedFileData[1].text_content
         \o "\n\n---\n\nUser message: " \o message
    ELSE message

(* Date.now() (187) in milliseconds.  Two sendMessage calls that pass the  *)
(* guards are at least two milliseconds apart: turn k starts at time 2k.   *)
(* Within one call the second reading is the first one or the next one.    *)
Now == 2 * TurnNumber
Later(t) == {t, t + 1}

(* The user has typed v into the textarea and calls sendMessage, which    *)
(* runs up to its first await (87-128); t1 and t2 are what Date.now()      *)
(* returns in the two addMessage calls                                      *)
SendMessage(v) ==
    LET message == Trim(v) IN
    IF NothingToSend(message) \/ Busy
    THEN /\ input' = v
         /\ UNCHANGED <<currentConversationId, currentModel, uploadedFileData,
                        isStreaming, messages, welcome, reducers, modelsLoad,
                        uploading, lastRequest, turnsLeft, plan, uploadsLeft,
                   conversation>>
    ELSE /\ turnsLeft > 0
         /\ \E webSearchEnabled \in WebSearchToggle, t1 \in {Now} :
            \E t2 \in Later(t1) :
              LET shown == IF message # "" THEN message
                           ELSE "[Uploaded PDF: " \o uploadedFileData[1].filename \o "]"
                  withUser == addMessage(messages, "user", shown, FALSE, t1,
                                         TurnNumber)
                  withImages == IF uploadedFileData # <<>> /\ Len(uploadedFileData[1].images) > 0
                                THEN addPdfImages(withUser, uploadedFileData[1].images)
                                ELSE withUser
              IN
              /\ input' = ""
              /\ welcome' = FALSE
              /\ messages' = addMessage(withImages, "assistant", "", TRUE, t2,
                                        TurnNumber)
              /\ isStreaming' = TRUE
              /\ lastRequest' = <<
                     [message |-> FullMessage(message),
                      model_id |-> currentModel,
                      conversation_id |-> currentConversationId,
                      web_search_enabled |-> webSearchEnabled,
                      typed |-> v,
                      attached |-> uploadedFileData]>>
              /\ reducers' = Append(reducers,
                     [assistantMessageId |-> t2, fullContent |-> "", pc |-> "fetch",
                      wire |-> <<>>, conn |-> "open", sent |-> <<>>, applied |-> <<>>,
                      turn |-> TurnNumber])
         /\ turnsLeft' = turnsLeft - 1
         /\ conversation' = "open"
         /\ UNCHANGED <<currentConversationId, currentModel, uploadedFileData,
                        modelsLoad, uploading, plan, uploadsLeft>>

(* The finally block (170-175) for activation i *)
Finally(i) ==
    /\ isStreaming' = FALSE
    /\ uploadedFileData' = <<>>
    /\ reducers' = RemoveAt(reducers, i)

(* The catch block (167-169) *)
Catch(i, errorMessage) ==
    messages' = updateMessageContent(messages, reducers[i].assistantMessageId,
                                     "Error: " \o errorMessage)

(* await fetch rejects (117) *)
FetchFail(i) ==
    /\ reducers[i].pc = "fetch"
    /\ \E m \in FetchErrors : Catch(i, m)
    /\ Finally(i)
    /\ UNCHANGED <<currentConversationId, currentModel, input, welcome, modelsLoad,
                   uploading, lastRequest, turnsLeft, plan, uploadsLeft,
                   conversation>>

(* await fetch resolves with the response (117-132) *)
FetchOk(i) ==
    /\ reducers[i].pc = "fetch"
    /\ reducers' = [reducers EXCEPT ![i].pc = "read"]
    /\ UNCHANGED <<currentConversationId, currentModel, uploadedFileData,
                   isStreaming, input, messages, welcome, modelsLoad, uploading,
                   lastRequest, turnsLeft, plan, uploadsLeft,
                   conversation>>

(* The server writes its next line to the response body *)
ServerEmit(i) ==
    /\ reducers[i].pc = "read"
    /\ reducers[i].conn = "open"
    /\ plan # <<>>
    /\ reducers' = [reducers EXCEPT ![i].wire = @ \o Line(Head(plan)),
                                    ![i].sent = Append(@, Head(plan))]
    /\ plan' = Tail(plan)
    /\ UNCHANGED <<currentConversationId, currentModel, uploadedFileData,
                   isStreaming, input, messages, welcome, modelsLoad, uploading,
                   lastRequest, turnsLeft, uploadsLeft,
                   conversation>>

(* The server ends the response body *)
ServerClose(i) ==
    /\ reducers[i].pc = "read"
    /\ reducers[i].conn = "open"
    /\ reducers' = [reducers EXCEPT ![i].conn = "closed"]
    /\ UNCHANGED <<currentConversationId, currentModel, uploadedFileData,
                   isStreaming, input, messages, welcome, modelsLoad, uploading,
                   lastRequest, turnsLeft, plan, uploadsLeft,
                   conversation>>

(* reader.read() yields the next n units as one chunk (135-162) *)
ReadChunk(i, n) ==
    /\ reducers[i].pc = "read"
    /\ n \in 1..Len(reducers[i].wire)
    /\ LET r == reducers[i]
           st == ProcessChunk([msgs |-> messages, fullContent |-> r.fullContent,
                               ccid |-> currentConversationId, applied |-> r.applied],
                              r.assistantMessageId, SubSeq(r.wire, 1, n))
       IN
       /\ messages' = st.msgs
       /\ currentConversationId' = st.ccid
       /\ reducers' = [reducers EXCEPT ![i].fullContent = st.fullContent,
                                       ![i].applied = st.applied,
                                       ![i].wire = SubSeq(r.wire, n + 1, Len(r.wire))]
       /\ conversation' = Continued(conversation, r, n)
    /\ UNCHANGED <<currentModel, uploadedFileData, isStreaming, input, welcome,
                   modelsLoad, uploading, lastRequest, turnsLeft, plan, uploadsLeft>>

(* reader.read() reports the end of the body (136, 165, 170-175) *)
ReadDone(i) ==
    /\ reducers[i].pc = "read"
    /\ reducers[i].conn = "closed"
    /\ reducers[i].wire = <<>>
    /\ messages' = removeLoadingIndicator(messages, reducers[i].assistantMessageId)
    /\ Finally(i)
    /\ UNCHANGED <<currentConversationId, currentModel, input, welcome, modelsLoad,
                   uploading, lastRequest, turnsLeft, plan, uploadsLeft,
                   conversation>>

(* reader.read() rejects: the connection broke before the body ended *)
ReadFail(i) ==
    /\ reducers[i].pc = "read"
    /\ reducers[i].conn = "open"
    /\ \E m \in FetchErrors : Catch(i, m)
    /\ Finally(i)
    /\ UNCHANGED <<currentConversationId, currentModel, input, welcome, modelsLoad,
                   uploading, lastRequest, turnsLeft, plan, uploadsLeft,
                   conversation>>

(* startNewChat (54-73) *)
StartNewChat ==
    /\ currentConversationId' = NULL
    /\ uploadedFileData' = <<>>
    /\ messages' = <<>>
    /\ welcome' = TRUE
    /\ conversation' = "fresh"
    /\ UNCHANGED <<currentModel, isStreaming, input, reducers, modelsLoad, uploading,
                   lastRequest, turnsLeft, plan, uploadsLeft>>

(* removeUploadedFile (369-374), also the handler of the chip's remove button *)
RemoveUploadedFile ==
    /\ uploadedFileData' = <<>>
    /\ UNCHANGED <<currentConversationId, currentModel, isStreaming, input, messages,
                   welcome, reducers, modelsLoad, uploading, lastRequest, turnsLeft,
                   plan, uploadsLeft,
                   conversation>>

(* file.name.toLowerCase().endsWith('.pdf') on the file names of Files *)
IsPdf(name) == name = "report.pdf"

(* handleFileUpload up to its await (334-353): a file that is no PDF is   *)
(* refused with an alert, a PDF is posted to /upload                        *)
HandleFileUpload(name) ==
    IF ~IsPdf(name)
    THEN UNCHANGED vars
    ELSE /\ uploadsLeft > 0
         /\ uploadsLeft' = uploadsLeft - 1
         /\ uploading' = uploading + 1
         /\ UNCHANGED <<currentConversationId, currentModel, uploadedFileData,
                        isStreaming, input, messages, welcome, reducers, modelsLoad,
                        lastRequest, turnsLeft, plan,
                   conversation>>

(* the upload answers 200 with the extraction result d (355-360) *)
UploadOk(d) ==
    /\ uploading > 0
    /\ uploading' = uploading - 1
    /\ uploadedFileData' = <<d>>
    /\ UNCHANGED <<currentConversationId, currentModel, isStreaming, input, messages,
                   welcome, reducers, modelsLoad, lastRequest, turnsLeft, plan,
                   uploadsLeft,
                   conversation>>

(* the upload fails or answers with an error status (355-357, 362-366) *)
UploadFail ==
    /\ uploading > 0
    /\ uploading' = uploading - 1
    /\ uploadedFileData' = <<>>
    /\ UNCHANGED <<currentConversationId, currentModel, isStreaming, input, messages,
                   welcome, reducers, modelsLoad, lastRequest, turnsLeft, plan,
                   uploadsLeft,
                   conversation>>

(* loadModels succeeds (19-41): default_model becomes the current model *)
LoadModelsOk(default_model) ==
    /\ modelsLoad = "pending"
    /\ modelsLoad' = "done"
    /\ currentModel' = default_model
    /\ UNCHANGED <<currentConversationId, uploadedFileData, isStreaming, input,
                   messages, welcome, reducers, uploading, lastRequest, turnsLeft,
                   plan, uploadsLeft,
                   conversation>>

(* loadModels fails (42-45) *)
LoadModelsFail ==
    /\ modelsLoad = "pending"
    /\ modelsLoad' = "failed"
    /\ UNCHANGED <<currentConversationId, currentModel, uploadedFileData,
                   isStreaming, input, messages, welcome, reducers, uploading,
                   lastRequest, turnsLeft, plan, uploadsLeft,
                   conversation>>

(* the change listener of the model select (38-41), registered by loadModels *)
SelectModel(m) ==
    /\ modelsLoad = "done"
    /\ currentModel' = m
    /\ UNCHANGED <<currentConversationId, uploadedFileData, isStreaming, input,
                   messages, welcome, reducers, modelsLoad, uploading,
                   lastRequest, turnsLeft, plan, uploadsLeft,
                   conversation>>

Next ==
    \/ \E v \in Inputs : SendMessage(v) /\ UNCHANGED script
    \/ \E i \in 1..Len(reducers) : FetchFail(i) /\ UNCHANGED script
    \/ \E i \in 1..Len(reducers) : FetchOk(i) /\ UNCHANGED script
    \/ \E i \in 1..Len(reducers) : ServerEmit(i) /\ UNCHANGED script
    \/ \E i \in 1..Len(reducers) : ServerClose(i) /\ UNCHANGED script
    \/ \E i \in 1..Len(reducers) : \E n \in 1..Len(reducers[i].wire) :
          ReadChunk(i, n) /\ UNCHANGED script
    \/ \E i \in 1..Len(reducers) : ReadDone(i) /\ UNCHANGED script
    \/ \E i \in 1..Len(reducers) : ReadFail(i) /\ UNCHANGED script
    \/ StartNewChat /\ UNCHANGED script
    \/ RemoveUploadedFile /\ UNCHANGED script
    \/ \E name \in Files : HandleFileUpload(name) /\ UNCHANGED script
    \/ \E d \in UploadResponses : UploadOk(d) /\ UNCHANGED script
    \/ UploadFail /\ UNCHANGED script
    \/ \E m \in Models : LoadModelsOk(m) /\ UNCHANGED script
    \/ LoadModelsFail /\ UNCHANGED script
    \/ \E m \in Models : SelectModel(m) /\ UNCHANGED script

Spec == Init /\ [][Next]_vars

----------------------------------------------------------------------------
(* One turn watched closely: the model list has loaded, nothing is         *)
(* uploaded, the user sends one message and the server answers with a      *)
(* longer stream.  Every behaviour is a behaviour of the page above from a *)
(* state it reaches.                                                        *)

MaxStreamEnvs == 2

Scenario ==
    <<ToolStartEnv("search"), ContentEnv("The "), ContentEnv("answer"),
      ToolEndEnv("search"), ContentEnv(" is 42."), DoneEnv("abc")>>

(* the server may also write a content envelope whose content is empty *)
StreamEnvelopes == Envelopes \cup {ContentEnv("")}

StreamPlans == UNION {[1..n -> StreamEnvelopes] : n \in 0..MaxStreamEnvs} \cup {Scenario}

InitStream ==
    /\ script = ScriptStart(FALSE, FALSE)
    /\ currentConversationId = NULL
    /\ currentModel \in Models
    /\ uploadedFileData = <<>>
    /\ isStreaming = FALSE
    /\ input = ""
    /\ messages = <<>>
    /\ welcome = TRUE
    /\ reducers = <<>>
    /\ modelsLoad = "done"
    /\ uploading = 0
    /\ lastRequest = <<>>
    /\ turnsLeft = 1
    /\ uploadsLeft = 0
    /\ conversation = "fresh"
    /\ plan \in StreamPlans

NextStream ==
    \/ \E v \in Inputs : SendMessage(v) /\ UNCHANGED script
    \/ \E i \in 1..Len(reducers) : FetchFail(i) /\ UNCHANGED script
    \/ \E i \in 1..Len(reducers) : FetchOk(i) /\ UNCHANGED script
    \/ \E i \in 1..Len(reducers) : ServerEmit(i) /\ UNCHANGED script
    \/ \E i \in 1..Len(reducers) : ServerClose(i) /\ UNCHANGED script
    \/ \E i \in 1..Len(reducers) : \E n \in 1..Len(reducers[i].wire) :
          ReadChunk(i, n) /\ UNCHANGED script
    \/ \E i \in 1..Len(reducers) : ReadDone(i) /\ UNCHANGED script
    \/ \E i \in 1..Len(reducers) : ReadFail(i) /\ UNCHANGED script

SpecStream == InitStream /\ [][NextStream]_vars

(* One turn whose server starts two tools and also writes lines that are   *)
(* no envelope the read loop knows.                                         *)
MaxLines == 2

LineItems ==
    {ToolStartEnv("x"), ToolStartEnv("y"), ContentEnv("a"), DoneEnv("c1"),
     PingEnv, CommentLine, BrokenLine}

LinePlans == UNION {[1..n -> LineItems] : n \in 0..MaxLines}

InitLines ==
    /\ script = ScriptStart(FALSE, FALSE)
    /\ currentConversationId = NULL
    /\ currentModel \in Models
    /\ uploadedFileData = <<>>
    /\ isStreaming = FALSE
    /\ input = ""
    /\ messages = <<>>
    /\ welcome = TRUE
    /\ reducers = <<>>
    /\ modelsLoad = "done"
    /\ uploading = 0
    /\ lastRequest = <<>>
    /\ turnsLeft = 1
    /\ uploadsLeft = 0
    /\ conversation = "fresh"
    /\ plan \in LinePlans

SpecLines == InitLines /\ [][NextStream]_vars


----------------------------------------------------------------------------
(* Reading the page *)

(* the entry the sendMessage call of turn t created for the assistant, 0   *)
(* when the page no longer holds it                                         *)
AssistantIndex(t) ==
    IF \E k \in 1..Len(messages) : messages[k].role = "assistant" /\ messages[k].turn = t
    THEN CHOOSE k \in 1..Len(messages) :
            messages[k].role = "assistant" /\ messages[k].turn = t
    ELSE 0

(* the id activation r holds selects the assistant entry of r's own turn *)
Addressed(r) ==
    /\ AssistantIndex(r.turn) # 0
    /\ getElementById(messages, r.assistantMessageId) = AssistantIndex(r.turn)

IsHtml(n) == n.kind = "html"
DisplayedText(nodes) ==
    IF FirstIndex(nodes, IsHtml) = 0 THEN "" ELSE nodes[FirstIndex(nodes, IsHtml)].text
BadgesFor(nodes, x) == {k \in 1..Len(nodes) : nodes[k].kind = "badge" /\ nodes[k].tool = x}
Badges(nodes) == SelectSeq(nodes, LAMBDA n : n.kind = "badge")
HasLoading(nodes) == FirstIndex(nodes, IsLoading) # 0
OneCompleteBadge(nodes, x) ==
    /\ Cardinality(BadgesFor(nodes, x)) = 1
    /\ \A k \in BadgesFor(nodes, x) : nodes[k].state = "complete"

(* the server has ended the body and the activation has read all of it *)
StreamEnded(r) == r.pc = "read" /\ r.conn = "closed" /\ r.wire = <<>>

RECURSIVE ConcatContents(_)
ConcatContents(envs) ==
    IF envs = <<>> THEN "" ELSE Head(envs).content \o ConcatContents(Tail(envs))

(* the reducer run over envs on a fresh assistant entry *)
RECURSIVE Reduce(_, _)
Reduce(st, envs) ==
    IF envs = <<>> THEN st ELSE Reduce(ApplyEnvelope(st, 0, Head(envs)), Tail(envs))

Reduced(envs) ==
    Reduce([msgs |-> <<Entry(0, "assistant", <<LoadingNode>>, 0)>>, fullContent |-> "",
            ccid |-> NULL, applied |-> <<>>], envs)

FirstTerminal(envs) ==
    IF \E k \in 1..Len(envs) : IsTerminal(envs[k])
    THEN CHOOSE k \in 1..Len(envs) :
            /\ IsTerminal(envs[k])
            /\ \A j \in 1..(k - 1) : ~IsTerminal(envs[j])
    ELSE 0

----------------------------------------------------------------------------
(* C1: chunk-boundary insensitivity.  When the stream of a turn that       *)
(* carried content envelopes only has ended, the text shown in the turn's  *)
(* assistant entry is the concatenation of their contents, however the     *)
(* bytes were cut into chunks.  Stated for a turn whose id selects its own *)
(* assistant entry.                                                         *)
C1_ChunkBoundaryInsensitive ==
    \A i \in 1..Len(reducers) :
        LET r == reducers[i] IN
        (/\ StreamEnded(r)
         /\ Addressed(r)
         /\ \A k \in 1..Len(r.sent) : r.sent[k].type = "content")
        => DisplayedText(messages[AssistantIndex(r.turn)].content) = ConcatContents(r.sent)

(* C2: the scenario of section 8.  Once the reducer has applied the six    *)
(* envelopes of Scenario to a fresh assistant entry and the stream has     *)
(* ended, the entry shows "The answer is 42.", exactly one badge for       *)
(* "search", complete, no loading indicator, and the conversation id is    *)
(* "abc".                                                                   *)
C2_ScenarioReduces ==
    \A i \in 1..Len(reducers) :
        LET r == reducers[i]
            nodes == messages[AssistantIndex(r.turn)].content
        IN
        (StreamEnded(r) /\ Addressed(r) /\ r.applied = Scenario)
        => /\ DisplayedText(nodes) = "The answer is 42."
           /\ OneCompleteBadge(nodes, "search")
           /\ ~HasLoading(nodes)
           /\ currentConversationId = "abc"

(* C3: a tool_start(x) applied and later a tool_end(x) applied, whatever   *)
(* was applied between them, leave exactly one badge for x, complete, in   *)
(* the assistant entry when the stream has ended.                           *)
C3_StartThenEndOneCompleteBadge ==
    \A i \in 1..Len(reducers) :
        LET r == reducers[i] IN
        \A j \in 1..Len(r.applied) : \A k \in (j + 1)..Len(r.applied) :
            (/\ StreamEnded(r)
             /\ Addressed(r)
             /\ r.applied[j].type = "tool_start"
             /\ r.applied[k].type = "tool_end"
             /\ r.applied[k].tool = r.applied[j].tool)
            => OneCompleteBadge(messages[AssistantIndex(r.turn)].content,
                                r.applied[j].tool)

(* C4: end without start.  When the envelope applied last is tool_end(x)   *)
(* and no tool_start(x) was applied before it, the assistant entry holds   *)
(* one badge for x, in the complete state.                                  *)
C4_EndWithoutStartMakesBadge ==
    \A i \in 1..Len(reducers) :
        LET r == reducers[i]
            last == r.applied[Len(r.applied)]
        IN
        (/\ r.applied # <<>>
         /\ Addressed(r)
         /\ last.type = "tool_end"
         /\ \A j \in 1..Len(r.applied) :
                ~(r.applied[j].type = "tool_start" /\ r.applied[j].tool = last.tool))
        => OneCompleteBadge(messages[AssistantIndex(r.turn)].content, last.tool)

(* C5: nothing after the terminal envelope counts.  While the activation   *)
(* is reading, once it has applied a done or error envelope the entry's    *)
(* content (text, badges, loading indicator) and the conversation id are   *)
(* what they were right after that envelope, whatever was applied since.   *)
C5_IgnoredAfterTerminal ==
    \A i \in 1..Len(reducers) :
        LET r == reducers[i]
            t == FirstTerminal(r.applied)
            then == Reduced(SubSeq(r.applied, 1, t))
        IN
        (r.pc = "read" /\ Addressed(r) /\ t # 0)
        => /\ messages[AssistantIndex(r.turn)].content = then.msgs[1].content
           /\ currentConversationId = then.ccid

(* C6: when the envelope applied last is error(e), the entry shows the     *)
(* error message and the badges it showed before that envelope, each in    *)
(* the state it had.                                                        *)
C6_ErrorKeepsBadges ==
    \A i \in 1..Len(reducers) :
        LET r == reducers[i]
            n == Len(r.applied)
            nodes == messages[AssistantIndex(r.turn)].content
            before == Reduced(SubSeq(r.applied, 1, n - 1))
        IN
        (r.pc = "read" /\ Addressed(r) /\ n > 0 /\ r.applied[n].type = "error")
        => /\ DisplayedText(nodes) = "Error: " \o r.applied[n].error
           /\ Badges(nodes) = Badges(before.msgs[1].content)

----------------------------------------------------------------------------
(* Fair streams: the request is answered or fails, the server goes on      *)
(* writing or closes, the connection does not stay silent for ever, and    *)
(* the client's awaits resume when their promise settles.                   *)
StreamStep ==
    /\ UNCHANGED script
    /\ \E i \in 1..Len(reducers) :
        \/ FetchFail(i)
        \/ FetchOk(i)
        \/ ServerEmit(i)
        \/ ServerClose(i)
        \/ \E n \in 1..Len(reducers[i].wire) : ReadChunk(i, n)
        \/ ReadDone(i)
        \/ ReadFail(i)

SpecStreamFair == InitStream /\ [][NextStream]_vars /\ WF_vars(StreamStep)

(* C7: single in-flight turn.  At most one sendMessage activation exists,  *)
(* isStreaming is true exactly while one exists, and while isStreaming is  *)
(* true no step sends a request, adds a transcript entry or consumes the   *)
(* input.                                                                   *)
C7_SingleInFlight ==
    /\ [](Len(reducers) <= 1 /\ (isStreaming <=> Len(reducers) = 1))
    /\ [][isStreaming =>
            /\ lastRequest' = lastRequest
            /\ turnsLeft' = turnsLeft
            /\ Len(messages') <= Len(messages)
            /\ (input = "" \/ input' # "")]_vars

(* a sendMessage call was made, and rejected, while a turn was streaming *)
C7_Witness ==
    /\ isStreaming
    /\ Len(reducers) = 1
    /\ lastRequest # <<>>
    /\ input = " hi "

(* C8: every started turn finishes.  Under fair streams, whenever a turn   *)
(* is in flight, eventually none is, isStreaming is false and no assistant *)
(* entry shows a loading indicator.                                         *)
C8_TurnFinishes ==
    (reducers # <<>>)
      ~> (/\ reducers = <<>>
          /\ ~isStreaming
          /\ \A k \in 1..Len(messages) :
                messages[k].role = "assistant" => ~HasLoading(messages[k].content))

C10_Continuity ==
    [][turnsLeft' < turnsLeft =>
          /\ conversation = "fresh" => lastRequest'[1].conversation_id = NULL
          /\ conversation \in ConversationIds =>
                lastRequest'[1].conversation_id = conversation]_vars

(* C11: the loading flag.  While the activation reads its stream, the      *)
(* assistant entry shows the loading indicator exactly as long as no       *)
(* content, done or error envelope has been applied; tool_start and        *)
(* tool_end leave it, done clears it at once.                               *)
C11_LoadingUntilContentOrTerminal ==
    \A i \in 1..Len(reducers) :
        LET r == reducers[i] IN
        (r.pc = "read" /\ Addressed(r))
        => (HasLoading(messages[AssistantIndex(r.turn)].content)
            <=> \A k \in 1..Len(r.applied) :
                    r.applied[k].type \notin {"content", "done", "error"})

(* C12: entry ids are unique.  No two entries of the page carry the same   *)
(* id.                                                                      *)
C12_UniqueIds ==
    \A j, k \in 1..Len(messages) : j # k => messages[j].id # messages[k].id

(* C16: an empty content envelope is a no-op.  When the envelope applied   *)
(* last is content(""), the children of the assistant entry (text,         *)
(* loading indicator, badges) are what they were before it.                 *)
C16_EmptyContentNoOp ==
    \A i \in 1..Len(reducers) :
        LET r == reducers[i]
            n == Len(r.applied)
        IN
        (r.pc = "read" /\ Addressed(r) /\ n > 0 /\ r.applied[n] = ContentEnv(""))
        => messages[AssistantIndex(r.turn)].content
             = Reduced(SubSeq(r.applied, 1, n - 1)).msgs[1].content

(* C17: every request carries a model id.  The model_id of the latest      *)
(* request is never null.                                                   *)
C17_ModelIdIsString ==
    lastRequest # <<>> => lastRequest[1].model_id # NULL

(* C19: badges persist.  While the activation reads its stream, every tool *)
(* for which a tool_start was applied has a badge in the assistant entry,  *)
(* and the badge is complete once a tool_end for it was applied after.     *)
C19_BadgesPersist ==
    \A i \in 1..Len(reducers) :
        LET r == reducers[i]
            nodes == messages[AssistantIndex(r.turn)].content
        IN
        (r.pc = "read" /\ Addressed(r))
        => \A j \in 1..Len(r.applied) :
              r.applied[j].type = "tool_start"
              => /\ BadgesFor(nodes, r.applied[j].tool) # {}
                 /\ (\E k \in (j + 1)..Len(r.applied) :
                        /\ r.applied[k].type = "tool_end"
                        /\ r.applied[k].tool = r.applied[j].tool)
                    => \A b \in BadgesFor(nodes, r.applied[j].tool) :
                          nodes[b].state = "complete"

(* C20: duplicate tool_start is idempotent.  No entry holds two badges for *)
(* one tool name, and when the envelope applied last is tool_start(x) and  *)
(* a badge for x was there before it, the entry's children are unchanged.  *)
C20_DuplicateStartIdempotent ==
    /\ \A m \in 1..Len(messages) : \A x \in Tools \cup {"search"} :
          Cardinality(BadgesFor(messages[m].content, x)) <= 1
    /\ \A i \in 1..Len(reducers) :
          LET r == reducers[i]
              n == Len(r.applied)
              before == Reduced(SubSeq(r.applied, 1, n - 1)).msgs[1].content
          IN
          (/\ r.pc = "read"
           /\ Addressed(r)
           /\ n > 0
           /\ r.applied[n].type = "tool_start"
           /\ BadgesFor(before, r.applied[n].tool) # {})
          => messages[AssistantIndex(r.turn)].content = before

(* tool_start(x) was applied twice in a row and the entry holds the one    *)
(* active badge for x before its loading indicator                          *)
C20_Witness ==
    \E i \in 1..Len(reducers) :
        LET r == reducers[i] IN
        /\ r.pc = "read"
        /\ Addressed(r)
        /\ r.applied = <<ToolStartEnv("x"), ToolStartEnv("x")>>
        /\ messages[AssistantIndex(r.turn)].content = <<BadgeNode("x", "active"), LoadingNode>>

----------------------------------------------------------------------------
(* Uploads watched closely: the model list has loaded, the server answers  *)
(* every turn with an empty stream or not at all, and the upload endpoint  *)
(* answers with extraction results of several shapes.  Every behaviour is  *)
(* a behaviour of the page above from a state it reaches, with a wider     *)
(* choice of upload answers and of typed text.                              *)

MaxUploadTurns == 2
MaxUploadTries == 2

UploadCases ==
    {[filename |-> "report.pdf", text_content |-> "Q3 report", images |-> Pages(7)],
     [filename |-> "report.pdf", text_content |-> "Q3 report", images |-> Pages(5)],
     [filename |-> "report.pdf", text_content |-> "", images |-> Pages(3)],
     [filename |-> "report.pdf", text_content |-> "Q3 report", images |-> Pages(0)],
     [filename |-> "report.pdf", text_content |-> "", images |-> Pages(0)]}

UploadInputs == {"  ", "summarize"}

InitUpload ==
    /\ script = ScriptStart(FALSE, FALSE)
    /\ currentConversationId = NULL
    /\ currentModel \in Models
    /\ uploadedFileData = <<>>
    /\ isStreaming = FALSE
    /\ input = ""
    /\ messages = <<>>
    /\ welcome = TRUE
    /\ reducers = <<>>
    /\ modelsLoad = "done"
    /\ uploading = 0
    /\ lastRequest = <<>>
    /\ turnsLeft = MaxUploadTurns
    /\ uploadsLeft = MaxUploadTries
    /\ conversation = "fresh"
    /\ plan = <<>>

NextUpload ==
    \/ \E v \in UploadInputs : SendMessage(v) /\ UNCHANGED script
    \/ \E i \in 1..Len(reducers) : FetchFail(i) /\ UNCHANGED script
    \/ \E i \in 1..Len(reducers) : FetchOk(i) /\ UNCHANGED script
    \/ \E i \in 1..Len(reducers) : ServerClose(i) /\ UNCHANGED script
    \/ \E i \in 1..Len(reducers) : ReadDone(i) /\ UNCHANGED script
    \/ \E i \in 1..Len(reducers) : ReadFail(i) /\ UNCHANGED script
    \/ StartNewChat /\ UNCHANGED script
    \/ RemoveUploadedFile /\ UNCHANGED script
    \/ \E name \in Files : HandleFileUpload(name) /\ UNCHANGED script
    \/ \E d \in UploadCases : UploadOk(d) /\ UNCHANGED script
    \/ UploadFail /\ UNCHANGED script

SpecUpload == InitUpload /\ [][NextUpload]_vars

(* the entry the latest sendMessage call created for the user, 0 when the  *)
(* page no longer holds it                                                  *)
LastUserIndex ==
    IF \E k \in 1..Len(messages) :
          messages[k].role = "user" /\ messages[k].turn = TurnNumber - 1
    THEN CHOOSE k \in 1..Len(messages) :
            messages[k].role = "user" /\ messages[k].turn = TurnNumber - 1
    ELSE 0

(* the page images attached to the latest request *)
AttachedImages ==
    IF lastRequest[1].attached = <<>> THEN <<>> ELSE lastRequest[1].attached[1].images

(* an extraction result with no text and no images *)
EmptyExtraction(d) == d.text_content = "" /\ d.images = <<>>

(* C13: thumbnails.  The user entry of a turn sent with n page images      *)
(* shows the first min(n, 5) of them in order, and a count of n - 5 more   *)
(* pages exactly when n > 5.                                                *)
C13_FirstFiveThumbnails ==
    (lastRequest # <<>> /\ LastUserIndex # 0)
    => LET n == Len(AttachedImages)
           e == messages[LastUserIndex]
       IN
       /\ Len(e.thumbs) = IF n < 5 THEN n ELSE 5
       /\ \A k \in 1..Len(e.thumbs) : e.thumbs[k] = AttachedImages[k]
       /\ e.more = IF n > 5 THEN n - 5 ELSE 0

(* the scenario of section 8: 7 images give 5 thumbnails and "+2 more pages" *)
C13_Witness ==
    /\ lastRequest # <<>>
    /\ LastUserIndex # 0
    /\ Len(AttachedImages) = 7
    /\ messages[LastUserIndex].thumbs = <<1, 2, 3, 4, 5>>
    /\ messages[LastUserIndex].more = 2

(* what may stand before the extracted text, and between it and the user's *)
(* text, in the message of a request                                        *)
Before(d) == {"", "[Uploaded PDF: " \o d.filename \o "]\n\nText content:\n"}
Between == {"", "\n", "\n\n---\n\nUser message: "}

(* C14: the message of a request.  Sent with a pending upload it holds the *)
(* extracted text and, after it, the trimmed text the user typed; sent     *)
(* with none it is the trimmed text the user typed.                         *)
C14_MessageTemplate ==
    lastRequest # <<>>
    => LET q == lastRequest[1] IN
       IF q.attached = <<>>
       THEN q.message = Trim(q.typed)
       ELSE \E pre \in Before(q.attached[1]), mid \in Between :
               q.message = pre \o q.attached[1].text_content \o mid \o Trim(q.typed)

(* the scenario of section 8: text "Q3 report", user text "summarize" *)
C14_Witness ==
    /\ lastRequest # <<>>
    /\ lastRequest[1].typed = "summarize"
    /\ lastRequest[1].message =
         "[Uploaded PDF: report.pdf]\n\nText content:\nQ3 report\n\n---\n\nUser message: summarize"

(* C15: a failed upload is no part of a turn.  An extraction result with   *)
(* no text and no images is never the pending attachment, and no request   *)
(* is sent with one attached.                                               *)
C15_FailedUploadNotSent ==
    /\ uploadedFileData # <<>> => ~EmptyExtraction(uploadedFileData[1])
    /\ (lastRequest # <<>> /\ lastRequest[1].attached # <<>>)
       => ~EmptyExtraction(lastRequest[1].attached[1])

----------------------------------------------------------------------------
(* The startup script (start.sh).  A step is one command of the script.    *)
(* bash runs a trap between two commands: a signal that arrives while a    *)
(* command runs is handled when the command has returned, and the wait     *)
(* builtin returns at once to let the trap run.                             *)

Signals == {"SIGINT", "SIGTERM"}
BackendPid == "pid-uvicorn"
FrontendPid == "pid-http.server"

(* kill -0 "$pid": a process with that id exists *)
Alive(pid) ==
    \/ pid = BackendPid /\ script.backend \in {"running", "terminating"}
    \/ pid = FrontendPid /\ script.frontend \in {"running", "terminating"}

(* kill "$pid": SIGTERM is sent to the process *)
Kill(sc, pid) ==
    IF pid = BackendPid /\ sc.backend = "running"
    THEN [sc EXCEPT !.backend = "terminating"]
    ELSE IF pid = FrontendPid /\ sc.frontend = "running"
    THEN [sc EXCEPT !.frontend = "terminating"]
    ELSE sc

(* exit n *)
Exit(sc, n) == [sc EXCEPT !.pc = "exited", !.status = n]

(* cleanup (18-34): kill each server whose pid variable is set and whose   *)
(* process exists, then exit 0                                              *)
cleanup(sc) ==
    LET b == IF sc.BACKEND_PID # "" /\ Alive(sc.BACKEND_PID)
             THEN Kill(sc, sc.BACKEND_PID) ELSE sc
        f == IF sc.FRONTEND_PID # "" /\ Alive(sc.FRONTEND_PID)
             THEN Kill(b, sc.FRONTEND_PID) ELSE b
    IN Exit(f, "0")

Running == script.pc # "exited"
Step(pc) == script.pc = pc /\ script.pending = ""

(* a signal is sent to the script's process *)
Signal(sig) ==
    /\ Running
    /\ script' = [script EXCEPT !.pending = sig]
    /\ UNCHANGED pageVars

(* trap cleanup SIGINT SIGTERM (36): the handler runs before the next command *)
Trap ==
    /\ Running
    /\ script.pending # ""
    /\ script' = cleanup(script)
    /\ UNCHANGED pageVars

(* the two port checks (52-62) *)
CheckPorts ==
    /\ Step("checkPorts")
    /\ script' = IF script.port8000 \/ script.port3000
                 THEN Exit(script, "1")
                 ELSE [script EXCEPT !.pc = "launchBackend"]
    /\ UNCHANGED pageVars

(* python3 -m uvicorn ... & (72-73) *)
LaunchBackend ==
    /\ Step("launchBackend")
    /\ script' = [script EXCEPT !.backend = "running", !.pc = "setBackendPid"]
    /\ UNCHANGED pageVars

(* BACKEND_PID=$! (74) *)
SetBackendPid ==
    /\ Step("setBackendPid")
    /\ script' = [script EXCEPT !.BACKEND_PID = BackendPid, !.pc = "sleep2"]
    /\ UNCHANGED pageVars

(* sleep 2 (76) *)
Sleep2 ==
    /\ Step("sleep2")
    /\ script' = [script EXCEPT !.pc = "checkBackend"]
    /\ UNCHANGED pageVars

(* a script that goes on to the frontend whatever the check finds *)
CheckBackendUnchecked ==
    /\ Step("checkBackend")
    /\ script' = [script EXCEPT !.pc = "launchFrontend"]
    /\ UNCHANGED pageVars

(* the check of the backend (78-81) *)
CheckBackend ==
    /\ Step("checkBackend")
    /\ script' = IF ~Alive(script.BACKEND_PID)
                 THEN Exit(script, "1")
                 ELSE [script EXCEPT !.pc = "launchFrontend"]
    /\ UNCHANGED pageVars

(* python3 -m http.server ... & (87-88) *)
LaunchFrontend ==
    /\ Step("launchFrontend")
    /\ script' = [script EXCEPT !.frontend = "running", !.pc = "setFrontendPid"]
    /\ UNCHANGED pageVars

(* FRONTEND_PID=$! (89) *)
SetFrontendPid ==
    /\ Step("setFrontendPid")
    /\ script' = [script EXCEPT !.FRONTEND_PID = FrontendPid, !.pc = "sleep1"]
    /\ UNCHANGED pageVars

(* sleep 1 (91) *)
Sleep1 ==
    /\ Step("sleep1")
    /\ script' = [script EXCEPT !.pc = "checkFrontend"]
    /\ UNCHANGED pageVars

(* the check of the frontend (93-97): cleanup exits, the exit 1 after it   *)
(* is never reached                                                         *)
CheckFrontend ==
    /\ Step("checkFrontend")
    /\ script' = IF ~Alive(script.FRONTEND_PID)
                 THEN cleanup(script)
                 ELSE [script EXCEPT !.pc = "wait"]
    /\ UNCHANGED pageVars

(* wait (118) returns when no child is left; the script ends with its status *)
Wait ==
    /\ Step("wait")
    /\ ~Alive(BackendPid)
    /\ ~Alive(FrontendPid)
    /\ script' = Exit(script, "0")
    /\ UNCHANGED pageVars

(* a server process ends: by itself, or because it was sent SIGTERM *)
BackendEnds ==
    /\ Alive(BackendPid)
    /\ script' = [script EXCEPT !.backend = "dead"]
    /\ UNCHANGED pageVars

FrontendEnds ==
    /\ Alive(FrontendPid)
    /\ script' = [script EXCEPT !.frontend = "dead"]
    /\ UNCHANGED pageVars

InitScript ==
    /\ currentConversationId = NULL
    /\ currentModel = NULL
    /\ uploadedFileData = <<>>
    /\ isStreaming = FALSE
    /\ input = ""
    /\ messages = <<>>
    /\ welcome = TRUE
    /\ reducers = <<>>
    /\ modelsLoad = "pending"
    /\ uploading = 0
    /\ lastRequest = <<>>
    /\ turnsLeft = 0
    /\ uploadsLeft = 0
    /\ conversation = "fresh"
    /\ plan = <<>>
    /\ \E busy8000, busy3000 \in BOOLEAN : script = ScriptStart(busy8000, busy3000)

NextScript ==
    \/ \E sig \in Signals : Signal(sig)
    \/ Trap
    \/ CheckPorts
    \/ LaunchBackend
    \/ SetBackendPid
    \/ Sleep2
    \/ CheckBackend
    \/ LaunchFrontend
    \/ SetFrontendPid
    \/ Sleep1
    \/ CheckFrontend
    \/ Wait
    \/ BackendEnds
    \/ FrontendEnds

SpecScript == InitScript /\ [][NextScript]_vars

(* C18: graceful shutdown.  When the script has exited after a signal, no  *)
(* server it launched is still running without having been sent SIGTERM.   *)
(* Stated for SIGTERM, which reaches the script's process alone.            *)
C18_NoServerLeftRunning ==
    (script.pc = "exited" /\ script.pending = "SIGTERM")
    => script.backend # "running" /\ script.frontend # "running"

(* C25: startup ordering.  A server is launched only when both ports were  *)
(* found free; a busy port at the port checks ends the script with status  *)
(* 1 and nothing launched.  The frontend is launched only from the step    *)
(* after the backend check, which is entered only when the check saw the   *)
(* launched backend alive; a backend that is not alive at the check ends   *)
(* the script with status 1 and the frontend is not launched then or       *)
(* afterwards.                                                              *)
Launches(server) == script[server] = "none" /\ script'[server] # "none"

C25_Step ==
    /\ (Launches("backend") \/ Launches("frontend"))
       => ~script.port8000 /\ ~script.port3000
    /\ (Step("checkPorts") /\ (script.port8000 \/ script.port3000)
          /\ script'.pc # script.pc)
       => /\ script'.pc = "exited" /\ script'.status = "1"
          /\ script'.backend = "none" /\ script'.frontend = "none"
    /\ Launches("frontend")
       => script.pc = "launchFrontend" /\ script.backend # "none"
    /\ (script'.pc = "launchFrontend" /\ script.pc # "launchFrontend")
       => /\ script.pc = "checkBackend"
          /\ script.BACKEND_PID = BackendPid
          /\ Alive(BackendPid)
    /\ (Step("checkBackend") /\ ~Alive(script.BACKEND_PID)
          /\ script'.pc # script.pc)
       => /\ script'.pc = "exited" /\ script'.status = "1"
          /\ script'.frontend = "none"
    /\ script.pc = "exited" => script'.pc = "exited"

C25_StartupOrdering == [][C25_Step]_vars

(* the backend ended before its check: the script has exited with status 1 *)
(* and no frontend                                                          *)
C25_Witness ==
    /\ script.pc = "exited"
    /\ script.pending = ""
    /\ script.status = "1"
    /\ script.BACKEND_PID = BackendPid
    /\ script.backend = "dead"
    /\ script.frontend = "none"

(* C26: when the frontend is not alive at its check, the script stops the  *)
(* running backend and exits with status 1.                                *)
C26_FrontendFailureExitsOne ==
    [][(Step("checkFrontend") /\ ~Alive(script.FRONTEND_PID)
          /\ script'.pc = "exited")
       => script'.backend # "running" /\ script'.status = "1"]_vars

(* C27: sendMessage with an empty or whitespace-only input and no pending  *)
(* upload is a no-op.  No request is ever sent for such an input, and the  *)
(* call that finds it leaves isStreaming, currentConversationId,           *)
(* uploadedFileData, the transcript and every other part of the page as    *)
(* they were; only the textarea holds what the user typed.                 *)
Blank == {"", "  "}

C27_Step ==
    /\ turnsLeft' # turnsLeft
       => ~(lastRequest'[1].typed \in Blank /\ uploadedFileData = <<>>)
    /\ (input' \in Blank /\ input' # "" /\ input' # input
          /\ uploadedFileData = <<>>)
       => UNCHANGED <<currentConversationId, currentModel, uploadedFileData,
                      isStreaming, messages, welcome, reducers, modelsLoad,
                      uploading, lastRequest, turnsLeft, plan, uploadsLeft,
                      conversation, script>>

C27_EmptySendNoOp == [][C27_Step]_vars

(* the page is idle with no upload, the user has sent white space, and     *)
(* nothing has been requested or shown                                      *)
C27_Witness ==
    /\ input \in Blank /\ input # ""
    /\ ~isStreaming
    /\ uploadedFileData = <<>>
    /\ reducers = <<>>
    /\ lastRequest = <<>>
    /\ messages = <<>>
    /\ welcome

(* C23: a new chat starts a new conversation.  Once startNewChat has been  *)
(* called, the next turn request carries conversation_id = null, whatever  *)
(* the stream of the turn that was in flight at the call delivers          *)
(* afterwards.                                                              *)
C23_NewChatRequestsNull ==
    [][(turnsLeft' < turnsLeft /\ conversation = "fresh")
       => lastRequest'[1].conversation_id = NULL]_vars

(* C24: an uploaded document goes into exactly one request.  A request     *)
(* that is sent carries the document pending at that moment, and the end   *)
(* of a turn clears the pending document exactly when it is the one the    *)
(* turn's request carried: a document whose upload completed while the     *)
(* turn was streaming stays pending for the next request.                  *)
C24_Step ==
    /\ turnsLeft' < turnsLeft => lastRequest'[1].attached = uploadedFileData
    /\ (Len(reducers') < Len(reducers)
          /\ uploadedFileData = lastRequest[1].attached)
       => uploadedFileData' = <<>>
    /\ (Len(reducers') < Len(reducers)
          /\ uploadedFileData # <<>>
          /\ ~EmptyExtraction(uploadedFileData[1])
          /\ uploadedFileData # lastRequest[1].attached)
       => uploadedFileData' = uploadedFileData

C24_UploadSentOnce == [][C24_Step]_vars

(* C21: badges and the loading indicator.  While the assistant entry of a  *)
(* turn still holds the loading indicator, every badge stands before it,   *)
(* every badge is the badge of a tool some tool_start envelope named, and  *)
(* the badges of two tools stand in the order of the tools' first          *)
(* tool_start envelopes.                                                    *)
FirstStart(envs, t) ==
    FirstIndex(envs, LAMBDA e : e.type = "tool_start" /\ e.tool = t)

KnownTypes == {"content", "tool_start", "tool_end", "done", "error"}
Known(e) == e.type \in KnownTypes

C22_FollowingEnvelopesApplied ==
    \A i \in 1..Len(reducers) :
        LET r == reducers[i] IN
        StreamEnded(r) =>
            \A k \in 1..Len(r.sent) :
                ~Known(r.sent[k]) =>
                    LET following == SelectSeq(SubSeq(r.sent, k + 1, Len(r.sent)), Known)
                        app == SelectSeq(r.applied, Known)
                    IN /\ Len(app) >= Len(following)
                       /\ SubSeq(app, Len(app) - Len(following) + 1, Len(app))
                             = following

(* What the read loop does guarantee, chunk by chunk: reading a chunk      *)
(* changes the transcript, the accumulated text and the conversation id    *)
(* exactly as applying, in order, the envelopes of the well-formed lines   *)
(* among the pieces of that chunk does, and not at all when it holds none. *)
WellFormed(line) ==
    /\ StartsWithData(line)
    /\ ParseOk(Slice6(line))
    /\ Known(JSONparse(Slice6(line)))

RECURSIVE WellFormedEnvelopes(_)
WellFormedEnvelopes(lines) ==
    IF lines = <<>> THEN <<>>
    ELSE (IF WellFormed(Head(lines)) THEN <<JSONparse(Slice6(Head(lines)))>> ELSE <<>>)
         \o WellFormedEnvelopes(Tail(lines))

RECURSIVE ApplyAll(_, _, _)
ApplyAll(st, id, envs) ==
    IF envs = <<>> THEN st
    ELSE ApplyAll(ApplyEnvelope(st, id, Head(envs)), id, Tail(envs))

ChunkStep ==
    \A i \in 1..Len(reducers) :
        (/\ Len(reducers') = Len(reducers)
         /\ reducers[i].pc = "read"
         /\ Len(reducers'[i].wire) < Len(reducers[i].wire))
        => LET r == reducers[i]
               n == Len(r.wire) - Len(reducers'[i].wire)
               good == WellFormedEnvelopes(Split(SubSeq(r.wire, 1, n)))
               st == ApplyAll([msgs |-> messages, fullContent |-> r.fullContent,
                               ccid |-> currentConversationId, applied |-> <<>>],
                              r.assistantMessageId, good)
           IN /\ messages' = st.msgs
              /\ currentConversationId' = st.ccid
              /\ reducers'[i].fullContent = st.fullContent
              /\ good = <<>> =>
                    /\ messages' = messages
                    /\ currentConversationId' = currentConversationId
                    /\ reducers'[i].fullContent = r.fullContent

ChunkLinesSkipped == [][ChunkStep]_vars

====
